---------------------------- MODULE Spec2Model ----------------------------
(***************************************************************************)
(* Model of app.js, the menu-driven photo catalog (INFS3201 assignment 2). *)
(*                                                                         *)
(* A JavaScript string is a sequence of one-character strings, so that     *)
(* trim, toLowerCase, parseInt and + are computed character by character.  *)
(* A JSON object is a function from attribute names to values; an absent   *)
(* attribute is a name outside its DOMAIN.  A console line is the sequence *)
(* of the characters and literal fragments console.log prints.             *)
(***************************************************************************)
EXTENDS Integers, Sequences, FiniteSets, TLC

\* Longest photo / album document an initial catalog holds, and the longest
\* session (number of menu operations run before the only choice left is Exit).
MaxPhotos == 2
MaxAlbums == 2
MaxOps == 2

PHOTOS_FILE == "photos.json"
ALBUMS_FILE == "albums.json"

---------------------------------------------------------------------------
\* JavaScript values and built-ins

\* The JSON value null, as an element of a document.
JSONNull == [null |-> TRUE]
IsNull(v) == DOMAIN v = {"null"}

\* o.k is defined
Has(o, k) == k \in DOMAIN o

\* o.k = v
SetField(o, k, v) == [f \in DOMAIN o \cup {k} |-> IF f = k THEN v ELSE o[f]]

\* o.k || dflt   (for the sequence- and string-valued attributes of the model:
\* an absent attribute and an empty string are falsy, an array never is)
OrElse(o, k, dflt) == IF Has(o, k) THEN o[k] ELSE dflt

IsSpace(c) == c = " "
IsDigit(c) == c \in {"0", "1", "2", "3", "4", "5", "6", "7", "8", "9"}
DigitVal(c) ==
  CASE c = "0" -> 0 [] c = "1" -> 1 [] c = "2" -> 2 [] c = "3" -> 3
    [] c = "4" -> 4 [] c = "5" -> 5 [] c = "6" -> 6 [] c = "7" -> 7
    [] c = "8" -> 8 [] c = "9" -> 9

RECURSIVE trimStart(_)
trimStart(s) ==
  IF s # <<>> /\ IsSpace(Head(s)) THEN trimStart(Tail(s)) ELSE s

RECURSIVE trimEnd(_)
trimEnd(s) ==
  IF s # <<>> /\ IsSpace(s[Len(s)]) THEN trimEnd(SubSeq(s, 1, Len(s) - 1)) ELSE s

\* String.prototype.trim
trim(s) == trimEnd(trimStart(s))

toLowerChar(c) ==
  CASE c = "A" -> "a" [] c = "B" -> "b" [] c = "C" -> "c" [] c = "D" -> "d"
    [] c = "S" -> "s" [] c = "T" -> "t" [] c = "X" -> "x"
    [] OTHER -> c

\* String.prototype.toLowerCase
toLowerCase(s) == [i \in 1..Len(s) |-> toLowerChar(s[i])]

\* Number of leading decimal digits of s.
RECURSIVE digitPrefix(_)
digitPrefix(s) ==
  IF s # <<>> /\ IsDigit(Head(s)) THEN 1 + digitPrefix(Tail(s)) ELSE 0

RECURSIVE digitsValue(_, _)
digitsValue(s, n) ==
  IF n = 0 THEN 0 ELSE 10 * digitsValue(s, n - 1) + DigitVal(s[n])

\* parseInt(s, 10): leading whitespace is skipped, an optional sign is read, then
\* the longest run of digits; NaN when there is no digit.
NaN == [nan |-> TRUE, n |-> 0]
parseInt(s) ==
  LET t == trimStart(s)
      signed == t # <<>> /\ Head(t) \in {"+", "-"}
      u == IF signed THEN Tail(t) ELSE t
      k == digitPrefix(u)
      v == digitsValue(u, k)
  IN IF k = 0 THEN NaN
     ELSE [nan |-> FALSE, n |-> IF signed /\ Head(t) = "-" THEN 0 - v ELSE v]

\* A variant of isNaN that lets every parse result through.
isNaNNever(x) == FALSE

isNaN(x) == x.nan

\* String(n) for an integer n >= 0
RECURSIVE String(_)
String(n) ==
  LET d == <<"0", "1", "2", "3", "4", "5", "6", "7", "8", "9">>
  IN IF n < 10 THEN <<d[n + 1]>> ELSE String(n \div 10) \o <<d[(n % 10) + 1]>>

---------------------------------------------------------------------------
\* Storage access

\* A file on disk: unreadable (missing or not JSON) or holding a JSON array.
File(readable, data) == [readable |-> readable, data |-> data]

\* readJson's return value: null, or the parsed array.
Loaded(f) == IF f.readable THEN [isNull |-> FALSE, value |-> f.data]
             ELSE [isNull |-> TRUE, value |-> <<>>]

\* What readJson prints: the diagnostic of its catch block, or nothing.
readJsonLog(path, f) ==
  IF f.readable THEN <<>>
  ELSE << <<"Error reading file", path, "-", "err.message">> >>

\* How a call of fs.writeFile may end: the whole text written; rejected before
\* the file was touched (the open was refused, as with EPERM); rejected after
\* the file was opened, hence emptied, and at most a proper prefix of the text
\* was written (as with ENOSPC on a full disk).
WriteOutcomes == {"written", "refused", "partial"}

\* The file after writeJson(path, data).  The documents of this model hold
\* integers, strings, arrays, objects and null, which JSON.stringify followed
\* by JSON.parse gives back unchanged.  A proper prefix of the text of a JSON
\* array is not JSON: the file is then one readJson cannot parse.
writeJsonFile(f, data, outcome) ==
  CASE outcome = "written" -> File(TRUE, data)
    [] outcome = "refused" -> f
    [] outcome = "partial" -> File(FALSE, <<>>)

\* A variant of writeJsonLog with an empty catch block.
writeJsonLogSilent(path, outcome) == <<>>

\* What writeJson prints.
writeJsonLog(path, outcome) ==
  IF outcome = "written" THEN <<>>
  ELSE << <<"Error writing file", path, "-", "err.message">> >>

\* The record of one file access: a readJson call, or a writeJson call with the
\* value it was given and whether fs.writeFile succeeded.
ReadEv(path, f) == [op |-> "read", path |-> path, ok |-> f.readable, data |-> <<>>]
WriteEv(path, data, outcome) ==
  [op |-> "write", path |-> path, ok |-> outcome = "written", data |-> data]

\* The message of the TypeError raised by reading attribute k of null.
TypeErrorMsg(k) == <<"Cannot read properties of null (reading '", k, "')">>

---------------------------------------------------------------------------
\* Helpers shared by the features

\* The result of running one feature: the lines it printed, the file accesses it
\* made, the prompt answers it consumed, the photo file it leaves on disk, and
\* whether it ended by throwing (err is then the error's message).
Res(o, i, a, pf) == [out |-> o, io |-> i, answers |-> a, photos |-> pf,
                     threw |-> FALSE, err |-> <<>>]
Thrown(o, i, a, pf, msg) == [out |-> o, io |-> i, answers |-> a, photos |-> pf,
                             threw |-> TRUE, err |-> msg]

Line(msg) == << <<msg>> >>

NotFound == -1
TypeErrorAt == -2

\* The scan `for (i...) if (photos[i].id === id)`: the (1-based) index of the
\* first element whose id is `id`, NotFound when the scan ends without one, and
\* TypeErrorAt when it reaches a null element first (photos[i].id throws).
RECURSIVE scanId(_, _, _)
scanId(photos, id, i) ==
  IF i > Len(photos) THEN NotFound
  ELSE IF IsNull(photos[i]) THEN TypeErrorAt
  ELSE IF Has(photos[i], "id") /\ photos[i].id = id THEN i
  ELSE scanId(photos, id, i + 1)

\* A variant of indexOfId whose index starts at the first photo instead of -1.
indexOfIdFromFirst(photos, id) ==
  IF scanId(photos, id, 1) = NotFound /\ photos # <<>> THEN 1 ELSE scanId(photos, id, 1)

indexOfId(photos, id) == scanId(photos, id, 1)

\* findPhotoById: the same scan, returning the element (here: its index).
findPhotoById(photos, id) == scanId(photos, id, 1)

\* A variant of joinLoop that puts the separator after every item.
RECURSIVE joinLoopTrailing(_, _, _)
joinLoopTrailing(items, sep, i) ==
  IF i > Len(items) THEN <<>>
  ELSE items[i] \o sep \o joinLoopTrailing(items, sep, i + 1)

\* The loops `str += items[i]; if (i < items.length - 1) str += sep`.
RECURSIVE joinLoop(_, _, _)
joinLoop(items, sep, i) ==
  IF i > Len(items) THEN <<>>
  ELSE items[i] \o (IF i < Len(items) THEN sep ELSE <<>>) \o joinLoop(items, sep, i + 1)

\* An attribute used as a string: 'undefined' when absent.
Str(o, k) == IF Has(o, k) THEN o[k] ELSE <<"undefined">>

---------------------------------------------------------------------------
\* formatDate
\*
\* A date attribute holds null, a number [number |-> n] or a string
\* [string |-> s]; an absent one reads as undefined.  The integers of this model
\* are 32 bits wide, so a timestamp beyond that is written as the string of its
\* digits, which Number() reads to the same value.

Undefined == [undefined |-> TRUE]
IsUndefined(v) == DOMAIN v = {"undefined"}

\* o.k
Attr(o, k) == IF Has(o, k) THEN o[k] ELSE Undefined

RECURSIVE stripZeros(_)
stripZeros(ds) ==
  IF ds # <<>> /\ Head(ds) = "0" THEN stripZeros(Tail(ds)) ELSE ds

IsDigits(s) == s # <<>> /\ \A i \in 1..Len(s) : IsDigit(s[i])

\* Number(v) for an integer or a string, as sign and decimal digits without
\* leading zeros (none for 0).  A string is trimmed; the empty string is 0; an
\* optional sign followed by decimal digits is that integer; any other string of
\* blanks, digits, signs and letters is NaN.  (Strings in fraction, exponent,
\* radix-prefix or Infinity notation are not strings of this model.)
Number(v) ==
  IF Has(v, "number")
  THEN [nan |-> FALSE, neg |-> v.number < 0,
        digits |-> stripZeros(String(IF v.number < 0 THEN 0 - v.number ELSE v.number))]
  ELSE LET t == trim(v.string)
           signed == t # <<>> /\ Head(t) \in {"+", "-"}
           u == IF signed THEN Tail(t) ELSE t
       IN IF t = <<>> THEN [nan |-> FALSE, neg |-> FALSE, digits |-> <<>>]
          ELSE IF IsDigits(u)
            THEN [nan |-> FALSE, neg |-> Head(t) = "-", digits |-> stripZeros(u)]
          ELSE [nan |-> TRUE, neg |-> FALSE, digits |-> <<>>]

\* Long division of a digit string by the 86400000 ms of a day.
RECURSIVE divDay(_, _, _)
divDay(ds, q, r) ==
  IF ds = <<>> THEN [q |-> q, r |-> r]
  ELSE LET x == 10 * r + DigitVal(Head(ds))
       IN divDay(Tail(ds), 10 * q + x \div 86400000, x % 86400000)

\* new Date(x).getTime(), as the day it falls in (days since 1 January 1970, in
\* UTC): NaN for NaN and beyond 8.64e15 ms (100 000 000 days) either side.
getTime(x) ==
  LET dm == divDay(x.digits, 0, 0)
      over == \/ Len(x.digits) > 16
              \/ dm.q > 100000000
              \/ dm.q = 100000000 /\ dm.r > 0
  IN IF x.nan \/ over THEN [nan |-> TRUE, day |-> 0]
     ELSE [nan |-> FALSE,
           day |-> IF ~x.neg THEN dm.q
                   ELSE IF dm.r = 0 THEN 0 - dm.q ELSE 0 - dm.q - 1]

\* Year, month and day of the month of a day number, in the proleptic Gregorian
\* calendar.
civil(day) ==
  LET z == day + 719468
      era == z \div 146097
      doe == z - era * 146097
      yoe == (doe - doe \div 1460 + doe \div 36524 - doe \div 146096) \div 365
      doy == doe - (365 * yoe + yoe \div 4 - yoe \div 100)
      mp == (5 * doy + 2) \div 153
      d == doy - (153 * mp + 2) \div 5 + 1
      m == IF mp < 10 THEN mp + 3 ELSE mp - 9
      y == yoe + era * 400 + (IF m <= 2 THEN 1 ELSE 0)
  IN [year |-> y, month |-> m, day |-> d]

MonthNames ==
  <<"January", "February", "March", "April", "May", "June", "July", "August",
    "September", "October", "November", "December">>

\* d.toLocaleDateString('en-US', {year: 'numeric', month: 'long', day: 'numeric'})
\* for a process whose time zone is UTC: 'Month day, year', the year counted
\* within its era (1 for the year before year 1).
toLocaleDateString(day) ==
  LET c == civil(day)
  IN <<MonthNames[c.month], " ">> \o String(c.day) \o <<",", " ">>
       \o String(IF c.year > 0 THEN c.year ELSE 1 - c.year)

formatDate(timestamp) ==
  IF IsUndefined(timestamp) \/ IsNull(timestamp) THEN <<"Unknown">>
  ELSE LET d == getTime(Number(timestamp))
       IN IF d.nan THEN <<"Invalid date">> ELSE toLocaleDateString(d.day)

---------------------------------------------------------------------------
\* displayPhoto

\* The inner loop of displayPhoto: the name of the first album whose id is aId,
\* as a one-element sequence; empty when there is none; TypeErrorAt on null.
RECURSIVE albumNameOf(_, _, _)
albumNameOf(albums, aId, j) ==
  IF j > Len(albums) THEN [threw |-> FALSE, names |-> <<>>]
  ELSE IF IsNull(albums[j]) THEN [threw |-> TRUE, names |-> <<>>]
  ELSE IF Has(albums[j], "id") /\ albums[j].id = aId
       THEN [threw |-> FALSE, names |-> <<Str(albums[j], "name")>>]
  ELSE albumNameOf(albums, aId, j + 1)

RECURSIVE albumNamesOf(_, _, _)
albumNamesOf(albumIds, albums, i) ==
  IF i > Len(albumIds) THEN [threw |-> FALSE, names |-> <<>>]
  ELSE LET one == albumNameOf(albums, albumIds[i], 1)
           rest == albumNamesOf(albumIds, albums, i + 1)
       IN IF one.threw THEN one
          ELSE [threw |-> rest.threw, names |-> one.names \o rest.names]

NoneIfEmpty(s) == IF s = <<>> THEN <<"None">> ELSE s

displayPhoto(photo, albums) ==
  LET head == << <<"Filename: ">> \o OrElse(photo, "filename", <<>>),
                 <<"Title: ">> \o OrElse(photo, "title", <<>>),
                 <<"Date: ">> \o formatDate(Attr(photo, "date")) >>
      names == albumNamesOf(OrElse(photo, "albums", <<>>), albums, 1)
      albumStr == joinLoop(names.names, <<",", " ">>, 1)
      tagStr == joinLoop(OrElse(photo, "tags", <<>>), <<",", " ">>, 1)
  IN IF names.threw THEN [threw |-> TRUE, out |-> head]
     ELSE [threw |-> FALSE,
           out |-> head \o << <<"Albums: ">> \o NoneIfEmpty(albumStr),
                              <<"Tags: ">> \o NoneIfEmpty(tagStr) >>]

---------------------------------------------------------------------------
\* Feature 1: Find Photo

findPhotoFeature(pf, af, idInput) ==
  LET id == parseInt(idInput)
      photos == Loaded(pf)
      albums == Loaded(af)
      io2 == <<ReadEv(PHOTOS_FILE, pf), ReadEv(ALBUMS_FILE, af)>>
      log == readJsonLog(PHOTOS_FILE, pf) \o readJsonLog(ALBUMS_FILE, af)
      at == findPhotoById(photos.value, id.n)
      shown == displayPhoto(photos.value[at], albums.value)
  IN IF isNaN(id) THEN Res(Line("Invalid ID"), <<>>, <<idInput>>, pf)
     ELSE IF photos.isNull \/ albums.isNull
       THEN Res(log \o Line("Could not load data files"), io2, <<idInput>>, pf)
     ELSE IF at = TypeErrorAt
       THEN Thrown(log, io2, <<idInput>>, pf, TypeErrorMsg("id"))
     ELSE IF at = NotFound
       THEN Res(log \o Line("Photo not found"), io2, <<idInput>>, pf)
     ELSE IF shown.threw
       THEN Thrown(log \o shown.out, io2, <<idInput>>, pf, TypeErrorMsg("id"))
     ELSE Res(log \o shown.out, io2, <<idInput>>, pf)

---------------------------------------------------------------------------
\* Feature 2: Update Photo Details

\* A variant of updatedPhoto that stores the trimmed answers.
updatedPhotoTrimmed(photo, newTitle, newDesc) ==
  LET p1 == IF trim(newTitle) # <<>> THEN SetField(photo, "title", trim(newTitle)) ELSE photo
  IN IF trim(newDesc) # <<>> THEN SetField(p1, "description", trim(newDesc)) ELSE p1

\* Lines 174-182: the photo after the two prompts.
updatedPhoto(photo, newTitle, newDesc) ==
  LET p1 == IF trim(newTitle) # <<>> THEN SetField(photo, "title", newTitle) ELSE photo
  IN IF trim(newDesc) # <<>> THEN SetField(p1, "description", newDesc) ELSE p1

updatePhotoDetailsFeature(pf, idInput, newTitle, newDesc, outcome) ==
  LET id == parseInt(idInput)
      photos == Loaded(pf)
      io1 == <<ReadEv(PHOTOS_FILE, pf)>>
      log == readJsonLog(PHOTOS_FILE, pf)
      index == indexOfId(photos.value, id.n)
      photo == updatedPhoto(photos.value[index], newTitle, newDesc)
      data == [photos.value EXCEPT ![index] = photo]
  IN IF isNaN(id) THEN Res(Line("Invalid ID"), <<>>, <<idInput>>, pf)
     ELSE IF photos.isNull
       THEN Res(log \o Line("Could not load photos"), io1, <<idInput>>, pf)
     ELSE IF index = TypeErrorAt
       THEN Thrown(log, io1, <<idInput>>, pf, TypeErrorMsg("id"))
     ELSE IF index = NotFound
       THEN Res(log \o Line("Photo not found"), io1, <<idInput>>, pf)
     ELSE Res(Line("Press enter to reuse existing value.")
                \o writeJsonLog(PHOTOS_FILE, outcome) \o Line("Photo updated"),
              io1 \o <<WriteEv(PHOTOS_FILE, data, outcome)>>,
              <<idInput, newTitle, newDesc>>,
              writeJsonFile(pf, data, outcome))

---------------------------------------------------------------------------
\* Feature 3: Album Photo List

\* A variant of scanAlbum that trims the stored name as well as the input.
RECURSIVE scanAlbumTrimmed(_, _, _)
scanAlbumTrimmed(albums, albumNameInput, i) ==
  IF i > Len(albums) THEN NotFound
  ELSE IF IsNull(albums[i]) THEN TypeErrorAt
  ELSE IF /\ Has(albums[i], "name")
          /\ albums[i].name # <<>>
          /\ toLowerCase(trim(albums[i].name)) = toLowerCase(trim(albumNameInput))
       THEN i
  ELSE scanAlbumTrimmed(albums, albumNameInput, i + 1)

\* Lines 204-210: the (1-based) index of the first album whose name, lowercased,
\* is the trimmed and lowercased input; a missing or empty name is falsy and is
\* skipped; albums[i].name throws on a null element.
RECURSIVE scanAlbum(_, _, _)
scanAlbum(albums, albumNameInput, i) ==
  IF i > Len(albums) THEN NotFound
  ELSE IF IsNull(albums[i]) THEN TypeErrorAt
  ELSE IF /\ Has(albums[i], "name")
          /\ albums[i].name # <<>>
          /\ toLowerCase(albums[i].name) = toLowerCase(trim(albumNameInput))
       THEN i
  ELSE scanAlbum(albums, albumNameInput, i + 1)

\* Lines 220-226: some element of p.albums is the found album's id.
RECURSIVE belongs(_, _, _)
belongs(pAlbums, foundAlbum, j) ==
  IF j > Len(pAlbums) THEN FALSE
  ELSE IF Has(foundAlbum, "id") /\ pAlbums[j] = foundAlbum.id THEN TRUE
  ELSE belongs(pAlbums, foundAlbum, j + 1)

\* Lines 231-236.  A resolution is [array |-> <<w, h>>] or [string |-> "WxH"].
resolutionOf(p) ==
  IF ~Has(p, "resolution") THEN <<>>
  ELSE IF Has(p.resolution, "array")
    THEN String(p.resolution.array[1]) \o <<"x">> \o String(p.resolution.array[2])
  ELSE p.resolution.string

\* Line 245: one row.
rowOf(p) ==
  Str(p, "filename") \o <<",">> \o resolutionOf(p) \o <<",">>
    \o joinLoop(OrElse(p, "tags", <<>>), <<":">>, 1)

\* Lines 217-246: the rows printed from photo i on; p.albums throws on null.
RECURSIVE listRows(_, _, _)
listRows(photos, foundAlbum, i) ==
  IF i > Len(photos) THEN [threw |-> FALSE, out |-> <<>>]
  ELSE IF IsNull(photos[i]) THEN [threw |-> TRUE, out |-> <<>>]
  ELSE LET rest == listRows(photos, foundAlbum, i + 1)
           row == IF belongs(OrElse(photos[i], "albums", <<>>), foundAlbum, 1)
                  THEN <<rowOf(photos[i])>> ELSE <<>>
       IN [threw |-> rest.threw, out |-> row \o rest.out]

Header == <<"filename,resolution,tags">>

albumPhotoListFeature(pf, af, albumNameInput) ==
  LET albums == Loaded(af)
      photos == Loaded(pf)
      io2 == <<ReadEv(ALBUMS_FILE, af), ReadEv(PHOTOS_FILE, pf)>>
      log == readJsonLog(ALBUMS_FILE, af) \o readJsonLog(PHOTOS_FILE, pf)
      at == scanAlbum(albums.value, albumNameInput, 1)
      rows == listRows(photos.value, albums.value[at], 1)
      ans == <<albumNameInput>>
  IN IF trim(albumNameInput) = <<>> THEN Res(Line("Album name required"), <<>>, ans, pf)
     ELSE IF albums.isNull \/ photos.isNull
       THEN Res(log \o Line("Could not load data"), io2, ans, pf)
     ELSE IF at = TypeErrorAt THEN Thrown(log, io2, ans, pf, TypeErrorMsg("name"))
     ELSE IF at = NotFound THEN Res(log \o Line("Album not found"), io2, ans, pf)
     ELSE IF rows.threw
       THEN Thrown(<<Header>> \o rows.out, io2, ans, pf, TypeErrorMsg("albums"))
     ELSE Res(<<Header>> \o rows.out, io2, ans, pf)

---------------------------------------------------------------------------
\* Feature 4: Tag Photo

\* A variant of duplicate that compares the tags as stored and as typed.
RECURSIVE duplicateExact(_, _, _)
duplicateExact(tags, tagToAdd, i) ==
  IF i > Len(tags) THEN FALSE
  ELSE IF tags[i] = tagToAdd THEN TRUE
  ELSE duplicateExact(tags, tagToAdd, i + 1)

\* Lines 284-290: some stored tag equals tagToAdd once both are lowercased.
RECURSIVE duplicate(_, _, _)
duplicate(tags, tagToAdd, i) ==
  IF i > Len(tags) THEN FALSE
  ELSE IF toLowerCase(tags[i]) = toLowerCase(tagToAdd) THEN TRUE
  ELSE duplicate(tags, tagToAdd, i + 1)

\* Variants of taggedPhoto: one stores the tag lowercased, one puts it first.
taggedPhotoLowered(photo, tagToAdd) ==
  SetField(photo, "tags", Append(OrElse(photo, "tags", <<>>), toLowerCase(tagToAdd)))

taggedPhotoFirst(photo, tagToAdd) ==
  SetField(photo, "tags", <<tagToAdd>> \o OrElse(photo, "tags", <<>>))

\* Lines 295-296: tags.push(tagToAdd); photos[index].tags = tags
taggedPhoto(photo, tagToAdd) ==
  SetField(photo, "tags", Append(OrElse(photo, "tags", <<>>), tagToAdd))

tagPhotoFeature(pf, idInput, tagInput, outcome) ==
  LET id == parseInt(idInput)
      tagToAdd == trim(tagInput)
      photos == Loaded(pf)
      io1 == <<ReadEv(PHOTOS_FILE, pf)>>
      log == readJsonLog(PHOTOS_FILE, pf)
      index == indexOfId(photos.value, id.n)
      tags == OrElse(photos.value[index], "tags", <<>>)
      data == [photos.value EXCEPT ![index] = taggedPhoto(photos.value[index], tagToAdd)]
      ans == <<idInput, tagInput>>
  IN IF isNaN(id) THEN Res(Line("Invalid ID"), <<>>, <<idInput>>, pf)
     ELSE IF trim(tagInput) = <<>> THEN Res(Line("Tag cannot be empty"), <<>>, ans, pf)
     ELSE IF photos.isNull
       THEN Res(log \o Line("Could not load photos"), io1, ans, pf)
     ELSE IF index = TypeErrorAt THEN Thrown(log, io1, ans, pf, TypeErrorMsg("id"))
     ELSE IF index = NotFound THEN Res(log \o Line("Photo not found"), io1, ans, pf)
     ELSE IF duplicate(tags, tagToAdd, 1)
       THEN Res(Line("Tag already exists, no changes made"), io1, ans, pf)
     ELSE Res(writeJsonLog(PHOTOS_FILE, outcome) \o Line("Updated!"),
              io1 \o <<WriteEv(PHOTOS_FILE, data, outcome)>>,
              ans,
              writeJsonFile(pf, data, outcome))

---------------------------------------------------------------------------
\* The catalogs a session may start from, and what the user may type

\* Photo records: with and without title, description, tags, albums and
\* resolution, with a date that is a timestamp, one that is no number, and
\* none; two of them share id 1; one names album 10 twice.
PhotoPool ==
  { [id |-> 1, filename |-> <<"p">>, title |-> <<"t">>, tags |-> << <<"c">>, <<"B">> >>,
     albums |-> <<10>>, resolution |-> [array |-> <<4, 3>>],
     date |-> [number |-> 2000000000]],
    [id |-> 2, filename |-> <<"q">>, description |-> <<"d">>,
     albums |-> <<20, 10, 10>>, resolution |-> [string |-> <<"4", "x", "3">>],
     date |-> [string |-> <<"x">>]],
    [id |-> 1, filename |-> <<"r">>, tags |-> <<>>],
    JSONNull }

\* Album records: names that differ by case and by surrounding whitespace.
AlbumPool ==
  { [id |-> 10, name |-> <<"s">>],
    [id |-> 20, name |-> <<" ", "S">>],
    [id |-> 20, name |-> <<"S">>] }

\* The documents of at most n pairwise different records of S.
SeqsUpTo(S, n) ==
  {d \in UNION {[1..k -> S] : k \in 0..n} :
     \A i, j \in 1..Len(d) : i # j => d[i] # d[j]}

PhotoDocs == SeqsUpTo(PhotoPool, MaxPhotos)
AlbumDocs == SeqsUpTo(AlbumPool, MaxAlbums)

SelectionInputs == {<<"1">>, <<"2">>, <<"3">>, <<" ", "4">>, <<"5">>, <<"9">>}
IdInputs == {<<"1">>, <<" ", "2", "x">>, <<"x">>}
TitleInputs == {<<" ">>, <<" ", "T">>}
DescInputs == {<<>>, <<"d">>}
AlbumNameInputs == {<<" ">>, <<" ", "S", " ">>, <<"s", "2">>}
TagInputs == {<<" ">>, <<" ", "A", " ">>, <<"a">>}

\* The answers to `Your selection> ` that dispatch to choice k (line 315).
Selecting(k) == {sel \in SelectionInputs : trim(sel) = <<k>>}

---------------------------------------------------------------------------
\* State

VARIABLES
  photosFile,   \* photos.json on disk
  albumsFile,   \* albums.json on disk
  pc,           \* where main is: "loop" (top of the while loop), "prompt" (menu
                \* printed, waiting at `Your selection> `), "returned" (main is over)
  stdin,        \* the answers given to the prompts since the menu was printed
  out,          \* the lines printed since the menu was printed
  io,           \* the file reads and writes since the menu was printed
  prev,         \* the two files as they were when the menu was printed
  nOps          \* selections answered so far

vars == <<photosFile, albumsFile, pc, stdin, out, io, prev, nOps>>

Files == [photos |-> photosFile, albums |-> albumsFile]

\* Line 307, with the catalog the session finds on disk: both documents
\* readable, or one of them missing or corrupt.  photos.json may also become
\* unreadable during the session, by a save that failed midway.
Init ==
  /\ \/ photosFile \in {File(TRUE, d) : d \in PhotoDocs}
        /\ albumsFile \in {File(TRUE, d) : d \in AlbumDocs}
     \/ photosFile = File(FALSE, <<>>)
        /\ albumsFile \in {File(TRUE, d) : d \in AlbumDocs}
     \/ photosFile \in {File(TRUE, d) : d \in PhotoDocs}
        /\ albumsFile = File(FALSE, <<>>)
  /\ pc = "loop"
  /\ stdin = <<>>
  /\ out = Line("Digital Media Catalog - INFS3201")
  /\ io = <<>>
  /\ prev = Files
  /\ nOps = 0

MenuLines ==
  << <<>>, <<"1. Find Photo">>, <<"2. Update Photo Details">>,
     <<"3. Album Photo List">>, <<"4. Tag Photo">>, <<"5. Exit">> >>

\* Lines 309-314: the top of the loop prints the menu and waits for a selection.
ShowMenu ==
  /\ pc = "loop"
  /\ pc' = "prompt"
  /\ stdin' = <<>>
  /\ out' = MenuLines
  /\ io' = <<>>
  /\ prev' = Files
  /\ UNCHANGED <<photosFile, albumsFile, nOps>>

\* The rest of an iteration that ran a feature with result r: the feature's
\* effects, then back to the top of the loop; an error it threw leaves the loop
\* for the catch block of line 331, after which main returns.
Ran(sel, r) ==
  /\ photosFile' = r.photos
  /\ albumsFile' = albumsFile
  /\ stdin' = <<sel>> \o r.answers
  /\ io' = r.io
  /\ out' = out \o (IF r.threw THEN r.out \o << <<"Unexpected error">> \o r.err >>
                    ELSE r.out)
  /\ pc' = IF r.threw THEN "returned" ELSE "loop"
  /\ nOps' = nOps + 1
  /\ UNCHANGED prev

AtPrompt == pc = "prompt" /\ nOps < MaxOps

FindPhoto ==
  /\ AtPrompt
  /\ \E sel \in Selecting("1"), idInput \in IdInputs :
       Ran(sel, findPhotoFeature(photosFile, albumsFile, idInput))

\* The title and description prompts are reached only when the photo was found.
UpdatePhotoDetails ==
  /\ AtPrompt
  /\ \E sel \in Selecting("2"), idInput \in IdInputs :
       LET early == updatePhotoDetailsFeature(photosFile, idInput, <<>>, <<>>, "written")
       IN IF Len(early.answers) = 1
          THEN Ran(sel, early)
          ELSE \E newTitle \in TitleInputs, newDesc \in DescInputs,
                  outcome \in WriteOutcomes :
                 Ran(sel, updatePhotoDetailsFeature(photosFile, idInput, newTitle,
                                                    newDesc, outcome))

AlbumPhotoList ==
  /\ AtPrompt
  /\ \E sel \in Selecting("3"), albumNameInput \in AlbumNameInputs :
       Ran(sel, albumPhotoListFeature(photosFile, albumsFile, albumNameInput))

\* The tag prompt is reached only after a valid id; the save only for a new tag.
TagPhoto ==
  /\ AtPrompt
  /\ \E sel \in Selecting("4"), idInput \in IdInputs :
       LET early == tagPhotoFeature(photosFile, idInput, <<>>, "written")
       IN IF Len(early.answers) = 1
          THEN Ran(sel, early)
          ELSE \E tagInput \in TagInputs, outcome \in WriteOutcomes :
                 Ran(sel, tagPhotoFeature(photosFile, idInput, tagInput, outcome))

\* Lines 324-326: Goodbye, break, and main returns.
Exit ==
  /\ pc = "prompt"
  /\ \E sel \in Selecting("5") : stdin' = <<sel>>
  /\ out' = out \o Line("Goodbye")
  /\ pc' = "returned"
  /\ UNCHANGED <<photosFile, albumsFile, io, prev, nOps>>

\* Lines 327-329
InvalidSelection ==
  /\ AtPrompt
  /\ \E sel \in SelectionInputs :
       /\ trim(sel) \notin {<<"1">>, <<"2">>, <<"3">>, <<"4">>, <<"5">>}
       /\ stdin' = <<sel>>
  /\ out' = out \o Line("Invalid selection")
  /\ pc' = "loop"
  /\ nOps' = nOps + 1
  /\ UNCHANGED <<photosFile, albumsFile, io, prev>>

Next ==
  \/ ShowMenu
  \/ FindPhoto
  \/ UpdatePhotoDetails
  \/ AlbumPhotoList
  \/ TagPhoto
  \/ Exit
  \/ InvalidSelection

Spec == Init /\ [][Next]_vars

---------------------------------------------------------------------------
\* Vocabulary of the properties

\* A selection was answered since the menu was printed; the choice made.
Acted == stdin # <<>>
Chose(k) == Acted /\ trim(stdin[1]) = <<k>>

\* The line m was printed since the menu was printed.
Printed(m) == \E i \in 1..Len(out) : out[i] = <<m>>

OldDoc == prev.photos.data
NewDoc == photosFile.data

WriteEvents == {i \in 1..Len(io) : io[i].op = "write"}

\* Photo i of document d is the one a lookup of id n finds: the first with that
\* id, with only well-formed records before it.
FoundAt(d, n, i) ==
  /\ i \in 1..Len(d)
  /\ \A j \in 1..i : ~IsNull(d[j])
  /\ d[i].id = n
  /\ \A j \in 1..(i - 1) : d[j].id # n

TagsOf(photo) == IF "tags" \in DOMAIN photo THEN photo.tags ELSE <<>>

SameNoCase(a, b) == toLowerCase(a) = toLowerCase(b)
HasTagNoCase(tags, t) == \E k \in 1..Len(tags) : SameNoCase(tags[k], t)

\* Records p and q agree on every attribute other than those in ks.
SameExcept(p, q, ks) ==
  /\ DOMAIN p \ ks = DOMAIN q \ ks
  /\ \A f \in DOMAIN p \ ks : p[f] = q[f]

\* Document D is document d with record i replaced by some record.
SameElsewhere(D, d, i) ==
  /\ Len(D) = Len(d)
  /\ \A j \in 1..Len(d) : j # i => D[j] = d[j]

\* Tag Photo got as far as its lookup: valid id in stdin[2], non-blank tag in
\* stdin[3], photos.json loaded.
TagLooked ==
  /\ Chose("4") /\ Len(stdin) = 3
  /\ ~parseInt(stdin[2]).nan
  /\ trim(stdin[3]) # <<>>
  /\ prev.photos.readable

\* Update Photo Details got as far as its lookup.
UpdateLooked ==
  /\ Chose("2") /\ Len(stdin) >= 2
  /\ ~parseInt(stdin[2]).nan
  /\ prev.photos.readable

---------------------------------------------------------------------------
\* C1: Tag Photo on a photo that already carries the tag, up to letter case and
\* surrounding whitespace of the input, reports "Tag already exists, no changes
\* made", writes nothing, and leaves photos.json (so also the stored casing of
\* the tag) exactly as it was.
C1_DuplicateTagNoWrite ==
  TagLooked => \A i \in 1..Len(OldDoc) :
    ( /\ FoundAt(OldDoc, parseInt(stdin[2]).n, i)
      /\ HasTagNoCase(TagsOf(OldDoc[i]), trim(stdin[3])) )
    => /\ Printed("Tag already exists, no changes made")
       /\ ~Printed("Updated!")
       /\ WriteEvents = {}
       /\ photosFile = prev.photos
       /\ pc = "loop"

\* C1, reached: a duplicate was refused although no stored tag has the typed casing.
C1_Witness ==
  /\ Chose("4") /\ Len(stdin) = 3
  /\ Printed("Tag already exists, no changes made")
  /\ \E i \in 1..Len(OldDoc) :
       /\ FoundAt(OldDoc, parseInt(stdin[2]).n, i)
       /\ \E k \in 1..Len(TagsOf(OldDoc[i])) :
            /\ SameNoCase(TagsOf(OldDoc[i])[k], trim(stdin[3]))
            /\ TagsOf(OldDoc[i])[k] # trim(stdin[3])
       /\ \A k \in 1..Len(TagsOf(OldDoc[i])) : TagsOf(OldDoc[i])[k] # trim(stdin[3])
       /\ TagsOf(NewDoc[i]) = TagsOf(OldDoc[i])

\* C2: Tag Photo with a new tag hands writeJson the old document with the trimmed
\* tag, in the casing typed, appended to the photo's tag list and nothing else
\* changed, reports "Updated!", and photos.json holds that document once the
\* write succeeded.
C2_TagAppended ==
  TagLooked => \A i \in 1..Len(OldDoc) :
    ( /\ FoundAt(OldDoc, parseInt(stdin[2]).n, i)
      /\ ~HasTagNoCase(TagsOf(OldDoc[i]), trim(stdin[3])) )
    => /\ Printed("Updated!")
       /\ Len(io) = 2 /\ WriteEvents = {2} /\ io[2].path = PHOTOS_FILE
       /\ SameElsewhere(io[2].data, OldDoc, i)
       /\ SameExcept(io[2].data[i], OldDoc[i], {"tags"})
       /\ "tags" \in DOMAIN io[2].data[i]
       /\ io[2].data[i].tags = TagsOf(OldDoc[i]) \o <<trim(stdin[3])>>
       /\ io[2].ok => photosFile = File(TRUE, io[2].data)

\* C2, reached: a tag typed with surrounding blanks and an upper-case letter was appended
\* after the tags the photo already had, and saved.
C2_Witness ==
  /\ TagLooked /\ Printed("Updated!")
  /\ stdin[3] # trim(stdin[3])
  /\ toLowerCase(trim(stdin[3])) # trim(stdin[3])
  /\ Len(io) = 2 /\ io[2].ok
  /\ \E i \in 1..Len(OldDoc) :
       /\ FoundAt(OldDoc, parseInt(stdin[2]).n, i)
       /\ Len(TagsOf(OldDoc[i])) >= 2
       /\ TagsOf(NewDoc[i]) = TagsOf(OldDoc[i]) \o <<trim(stdin[3])>>

\* The value Update Photo Details leaves in attribute k for the answer typed.
AfterAnswer(photo, k, answer) ==
  IF trim(answer) = <<>> THEN photo
  ELSE [f \in DOMAIN photo \cup {k} |-> IF f = k THEN answer ELSE photo[f]]

\* C3: Update Photo Details on a found photo hands writeJson the old document in
\* which title and description are, each on its own, the old value when the
\* answer is blank after trimming and the answer as typed (untrimmed) otherwise,
\* reports "Photo updated", and photos.json holds that document once the write
\* succeeded.
C3_UpdateVerbatim ==
  UpdateLooked => \A i \in 1..Len(OldDoc) :
    FoundAt(OldDoc, parseInt(stdin[2]).n, i)
    => /\ Len(stdin) = 4
       /\ Printed("Photo updated")
       /\ Len(io) = 2 /\ WriteEvents = {2} /\ io[2].path = PHOTOS_FILE
       /\ SameElsewhere(io[2].data, OldDoc, i)
       /\ io[2].data[i] =
            AfterAnswer(AfterAnswer(OldDoc[i], "title", stdin[3]), "description", stdin[4])
       /\ io[2].ok => photosFile = File(TRUE, io[2].data)

\* C3, reached: a title typed with a leading blank was stored as typed while a blank
\* description answer left the description alone.
C3_Witness ==
  /\ UpdateLooked /\ Len(stdin) = 4 /\ Printed("Photo updated")
  /\ trim(stdin[3]) # <<>> /\ trim(stdin[3]) # stdin[3]
  /\ trim(stdin[4]) = <<>>
  /\ Len(io) = 2 /\ io[2].ok
  /\ \E i \in 1..Len(OldDoc) :
       /\ FoundAt(OldDoc, parseInt(stdin[2]).n, i)
       /\ NewDoc[i].title = stdin[3]
       /\ "description" \in DOMAIN OldDoc[i]
       /\ NewDoc[i].description = OldDoc[i].description

---------------------------------------------------------------------------
\* Album Photo List

Albums == albumsFile.data

\* Album Photo List got as far as its lookup: non-blank name in stdin[2], both
\* documents loaded.
ListLooked ==
  /\ Chose("3") /\ Len(stdin) = 2
  /\ trim(stdin[2]) # <<>>
  /\ prev.albums.readable /\ prev.photos.readable

HeaderLines == {i \in 1..Len(out) : out[i] = Header}

\* The lines printed after the menu.
Shown == SubSeq(out, Len(MenuLines) + 1, Len(out))

NoNullPhoto == \A i \in 1..Len(OldDoc) : ~IsNull(OldDoc[i])

\* The stored name equals the typed one: both lowercased, the typed one trimmed
\* first (NameMatches), or both trimmed first (NameMatchesTrimmed).
NameMatches(a, typed) == toLowerCase(a.name) = toLowerCase(trim(typed))
NameMatchesTrimmed(a, typed) == toLowerCase(trim(a.name)) = toLowerCase(trim(typed))

\* The photos of document d that name album id in their albums attribute.
InAlbum(d, id) ==
  {i \in 1..Len(d) : /\ ~IsNull(d[i])
                     /\ "albums" \in DOMAIN d[i]
                     /\ \E j \in 1..Len(d[i].albums) : d[i].albums[j] = id}

\* The original statement of C4: the album selected is the first whose stored
\* name equals the typed name after trimming and lowercasing both; with no such
\* album, "Album not found".
C4_TrimsBothSides ==
  ListLooked =>
    LET hits == {i \in 1..Len(Albums) : NameMatchesTrimmed(Albums[i], stdin[2])}
    IN IF hits = {} THEN Printed("Album not found") /\ HeaderLines = {}
       ELSE /\ ~Printed("Album not found")
            /\ HeaderLines # {}
            /\ LET first == CHOOSE i \in hits : \A j \in hits : i <= j
               IN NoNullPhoto =>
                    Len(Shown) = 1 + Cardinality(InAlbum(OldDoc, Albums[first].id))

\* C4 (amended): the album selected is the first whose stored name, lowercased
\* but not trimmed, equals the typed name trimmed and lowercased; with no such
\* album, "Album not found".  Blanks around the typed name and letter case on
\* either side never prevent a match; blanks around the stored name do.
C4_TrimsInputOnly ==
  ListLooked =>
    LET hits == {i \in 1..Len(Albums) : NameMatches(Albums[i], stdin[2])}
    IN IF hits = {} THEN Printed("Album not found") /\ HeaderLines = {}
       ELSE /\ ~Printed("Album not found")
            /\ HeaderLines # {}
            /\ LET first == CHOOSE i \in hits : \A j \in hits : i <= j
               IN NoNullPhoto =>
                    Len(Shown) = 1 + Cardinality(InAlbum(OldDoc, Albums[first].id))

\* C4, reached: an album was found for a name typed with blanks and in another letter case,
\* past an album whose stored name differs from it only by a leading blank, and
\* ahead of a second album with a matching name and another id.
C4_Witness ==
  /\ ListLooked /\ HeaderLines # {}
  /\ Len(Albums) >= 2
  /\ NameMatchesTrimmed(Albums[1], stdin[2]) /\ ~NameMatches(Albums[1], stdin[2])
  /\ NameMatches(Albums[2], stdin[2])
  /\ Albums[2].name # trim(stdin[2]) /\ stdin[2] # trim(stdin[2])
  /\ NoNullPhoto
  /\ InAlbum(OldDoc, Albums[2].id) # InAlbum(OldDoc, Albums[1].id)

---------------------------------------------------------------------------
\* C5 (as claimed): an error raised by an operation is reported and the menu is
\* offered again; main is over only after the user chose Exit (5).
C5_EndsOnlyOnExit == pc = "returned" => Chose("5")

---------------------------------------------------------------------------
\* An answer failed validation: an id that does not parse to an integer (Find
\* Photo, Update Photo Details, Tag Photo), a tag blank after trimming, an album
\* name blank after trimming.
InvalidId ==
  /\ Acted /\ trim(stdin[1]) \in {<<"1">>, <<"2">>, <<"4">>}
  /\ parseInt(stdin[2]).nan
BlankTag ==
  /\ Chose("4") /\ ~parseInt(stdin[2]).nan
  /\ trim(stdin[3]) = <<>>
BlankAlbumName == Chose("3") /\ trim(stdin[2]) = <<>>

\* C6: an operation whose input fails validation reports it and stops before
\* any document is read or written.
C6_ValidationBeforeIO ==
  /\ InvalidId => Printed("Invalid ID") /\ Len(stdin) = 2
  /\ BlankTag => Printed("Tag cannot be empty") /\ Len(stdin) = 3
  /\ BlankAlbumName => Printed("Album name required")
  /\ (InvalidId \/ BlankTag \/ BlankAlbumName)
       => /\ io = <<>>
          /\ photosFile = prev.photos /\ albumsFile = prev.albums
          /\ Len(Shown) = 1
          /\ pc = "loop"

\* C6, reached: a tag of blanks only was refused, with a valid id of a photo on disk.
C6_Witness ==
  /\ BlankTag /\ stdin[3] # <<>>
  /\ prev.photos.readable
  /\ \E i \in 1..Len(OldDoc) : FoundAt(OldDoc, parseInt(stdin[2]).n, i)

---------------------------------------------------------------------------
\* The operation needed a document that did not load.
LoadError ==
  /\ Acted
  /\ \/ trim(stdin[1]) \in {<<"1">>, <<"2">>, <<"3">>, <<"4">>} /\ ~prev.photos.readable
     \/ trim(stdin[1]) \in {<<"1">>, <<"3">>} /\ ~prev.albums.readable

\* The id typed is the id of no photo the lookup reaches.
PhotoMiss ==
  /\ Acted /\ trim(stdin[1]) \in {<<"1">>, <<"2">>, <<"4">>}
  /\ ~parseInt(stdin[2]).nan
  /\ \A i \in 1..Len(OldDoc) : ~FoundAt(OldDoc, parseInt(stdin[2]).n, i)

AlbumMiss ==
  /\ ListLooked
  /\ \A i \in 1..Len(Albums) : ~NameMatches(Albums[i], stdin[2])

Untouched ==
  /\ WriteEvents = {}
  /\ photosFile = prev.photos
  /\ albumsFile = prev.albums

\* C7: nothing is written when a document fails to load or the lookup misses;
\* photos.json is written only by an Update Photo Details that found its photo
\* and by a Tag Photo that found its photo and a new tag; albums.json is never
\* written.
C7_WritesOnlyOnSuccess ==
  /\ (LoadError \/ PhotoMiss \/ AlbumMiss) => Untouched
  /\ (Chose("1") \/ Chose("3") \/ Chose("5")) => Untouched
  /\ albumsFile = prev.albums
  /\ \A w \in WriteEvents : io[w].path = PHOTOS_FILE
  /\ (WriteEvents # {} \/ photosFile # prev.photos) =>
       /\ prev.photos.readable
       /\ \E i \in 1..Len(OldDoc) :
            /\ FoundAt(OldDoc, parseInt(stdin[2]).n, i)
            /\ \/ Chose("2") /\ Printed("Photo updated")
               \/ /\ Chose("4") /\ Printed("Updated!")
                  /\ ~HasTagNoCase(TagsOf(OldDoc[i]), trim(stdin[3]))

\* C7, reached: tag Photo and Update Photo Details missed their photo in a document that
\* holds other photos.
C7_Witness ==
  /\ PhotoMiss /\ ~Chose("1") /\ Printed("Photo not found")
  /\ prev.photos.readable /\ OldDoc # <<>> /\ NoNullPhoto

---------------------------------------------------------------------------
\* The tags of a photo joined by ':'.
RECURSIVE TagField(_)
TagField(tags) ==
  IF tags = <<>> THEN <<>>
  ELSE IF Len(tags) = 1 THEN tags[1]
  ELSE TagField(SubSeq(tags, 1, Len(tags) - 1)) \o <<":">> \o tags[Len(tags)]

RowText(p) == p.filename \o <<",">> \o resolutionOf(p) \o <<",">> \o TagField(TagsOf(p))

\* The k-th smallest element of the set S of indices.
RECURSIVE Nth(_, _)
Nth(S, k) ==
  LET m == CHOOSE i \in S : \A j \in S : i <= j
  IN IF k = 1 THEN m ELSE Nth(S \ {m}, k - 1)

\* C8: Album Photo List for a found album prints the header once, then one row
\* for each photo whose albums attribute holds the album's id, in storage order
\* and once per photo; the last field of a row is the photo's tags joined by ':'
\* (empty for a photo without tags).
C8_OneRowPerMember ==
  (ListLooked /\ ~AlbumMiss /\ NoNullPhoto) =>
    LET hits == {i \in 1..Len(Albums) : NameMatches(Albums[i], stdin[2])}
        first == CHOOSE i \in hits : \A j \in hits : i <= j
        members == InAlbum(OldDoc, Albums[first].id)
    IN /\ Len(Shown) = 1 + Cardinality(members)
       /\ Shown[1] = Header
       /\ HeaderLines = {Len(MenuLines) + 1}
       /\ \A k \in 1..Cardinality(members) :
            Shown[1 + k] = RowText(OldDoc[Nth(members, k)])

\* C8, reached: two rows were printed, in storage order: one for a photo with two tags and
\* one, printed once, for a photo without tags that names the album twice.
C8_Witness ==
  /\ ListLooked /\ NoNullPhoto
  /\ Len(Shown) = 3 /\ Shown[1] = Header
  /\ Len(OldDoc) = 2
  /\ Len(TagsOf(OldDoc[1])) = 2 /\ TagsOf(OldDoc[2]) = <<>>
  /\ \E a, b \in 1..Len(OldDoc[2].albums) : a # b /\ OldDoc[2].albums[a] = OldDoc[2].albums[b]
  /\ Shown[2] = RowText(OldDoc[1]) /\ Shown[3] = RowText(OldDoc[2])
  /\ Shown[3][Len(Shown[3])] = ","

---------------------------------------------------------------------------
WriteDiagnostic == <<"Error writing file", PHOTOS_FILE, "-", "err.message">>

\* C9: when the save of photos.json fails, whatever it left on disk, the
\* diagnostic is printed, then the operation's success message, and main goes on
\* to the next menu.
C9_SaveFailureNotPropagated ==
  \A w \in WriteEvents :
    ~io[w].ok =>
      /\ Len(Shown) >= 2
      /\ Shown[Len(Shown) - 1] = WriteDiagnostic
      /\ Shown[Len(Shown)] = IF Chose("2") THEN <<"Photo updated">> ELSE <<"Updated!">>
      /\ Chose("2") \/ Chose("4")
      /\ \A i \in 1..Len(out) : out[i] = <<>> \/ Head(out[i]) # "Unexpected error"
      /\ pc = "loop"

\* C9, reached: the save of a newly tagged document failed midway and left
\* photos.json unreadable.
C9_Witness ==
  /\ Chose("4") /\ WriteEvents = {2} /\ ~io[2].ok
  /\ Printed("Updated!")
  /\ io[2].data # OldDoc
  /\ prev.photos.readable /\ ~photosFile.readable

---------------------------------------------------------------------------
NoCaseDistinct(tags) ==
  \A a, b \in 1..Len(tags) : a # b => ~SameNoCase(tags[a], tags[b])

DistinctTags(d) == \A i \in 1..Len(d) : ~IsNull(d[i]) => NoCaseDistinct(TagsOf(d[i]))

IsPrefix(s, t) == Len(s) <= Len(t) /\ SubSeq(t, 1, Len(s)) = s

\* No save of the last operation failed.
SavesSucceeded == \A w \in WriteEvents : io[w].ok

\* C10: over a session, photos.json keeps its photos, their order and their ids;
\* every tag list only grows at its end; and tag lists that were pairwise
\* distinct up to letter case stay so.  (prev is the document before the last
\* operation, and every initial document has distinct tags.)  An operation
\* whose saves succeeded leaves a readable document readable; a failed save may
\* leave no document at all, but never one that breaks these relations.
C10_TagsGrowDistinct ==
  /\ SavesSucceeded => photosFile.readable = prev.photos.readable
  /\ photosFile.readable =>
       /\ prev.photos.readable
       /\ Len(NewDoc) = Len(OldDoc)
       /\ \A i \in 1..Len(OldDoc) :
            /\ IsNull(NewDoc[i]) <=> IsNull(OldDoc[i])
            /\ ~IsNull(OldDoc[i]) =>
                 /\ NewDoc[i].id = OldDoc[i].id
                 /\ IsPrefix(TagsOf(OldDoc[i]), TagsOf(NewDoc[i]))
       /\ DistinctTags(OldDoc) => DistinctTags(NewDoc)
       /\ DistinctTags(NewDoc)

\* C10, reached: the second operation of a session appended a tag to a photo whose title the
\* first operation had changed, in a document of two photos.
C10_Witness ==
  /\ nOps = 2 /\ Chose("4") /\ Len(NewDoc) = 2
  /\ photosFile.readable /\ SavesSucceeded
  /\ \E i \in 1..Len(NewDoc) :
       /\ ~IsNull(NewDoc[i])
       /\ "title" \in DOMAIN NewDoc[i] /\ NewDoc[i].title = <<" ", "T">>
       /\ Len(TagsOf(NewDoc[i])) = Len(TagsOf(OldDoc[i])) + 1
       /\ Len(TagsOf(OldDoc[i])) >= 2

=============================================================================
